---------------------------- MODULE Spec2Model ----------------------------
(***************************************************************************)
(* Model of the family planner (aclowwwn/advent): the completion scoring   *)
(* of Calendar.tsx / App.tsx, the radial segment layout of DayView, and    *)
(* the task handlers of App.tsx with the persistence gateway.              *)
(*                                                                         *)
(* Conventions                                                             *)
(*   - a wall-clock string "HH:mm" is the pair <<HH, mm>>; the code's      *)
(*     split(':').map(Number) is ToMinutes;                                *)
(*   - a fraction is a pair <<n, d>>, d > 0 (the code computes in doubles; *)
(*     the model computes the same expressions exactly);                   *)
(*   - an angle is kept in half-degrees, so that 0.5 degree is 1;          *)
(*   - an instant is a number of minutes: day * 1440 + minute of day;      *)
(*   - a date value is [kind, text]: a string as given, or a JS Date       *)
(*     object whose text is its calendar day, "Invalid Date" for NaN.      *)
(***************************************************************************)
EXTENDS Integers, Sequences, FiniteSets, TLC

\* ------------------------------------------------------------------ bounds

\* most tasks of the day shown on the dial
MaxDayTasks == 3
\* most tasks of the day under the ticking clock
MaxClockTasks == 2
\* most tasks of the scoring specification
MaxScoreTasks == 2
\* longest checklist of a task
MaxChecklist == 3
\* most tasks the application ever creates
MaxTasks == 2
\* most updateTask and deleteTask calls in flight at once
MaxPending == 2
\* most tasks of one day cell of the month grid
MaxCellTasks == 5
\* the years, from 2024 on, whose months the grid is computed for
MaxYears == 2

\* longest checklist and longest list of content ideas of a request body
MaxRows == 1

\* the alerts raised before the planner is left alone
MaxAlerts == 2

\* --------------------------------------------------------- program constants

RADIUS_PM == 120
RADIUS_AM == 80
NOON == 720

Null == [kind |-> "null"]

\* ------------------------------------------------------------------- dates

ValidDateStrings == {"2024-12-05", "2024-12-10"}
DateStrings == ValidDateStrings \cup {"next tuesday"}

StringDate(s) == [kind |-> "string", text |-> s]

\* new Date(value): a Date object is copied, a string is parsed; a string
\* that does not parse gives a Date whose getTime() is NaN.
NewDate(v) ==
  IF v.kind = "Date" THEN v
  ELSE [kind |-> "Date",
        text |-> IF v.text \in ValidDateStrings THEN v.text ELSE "Invalid Date"]

\* Number.isNaN(jsDate.getTime())
IsNaNDate(d) == d.text = "Invalid Date"

\* the day number of a calendar day (days of December 2024)
DayNumber(s) ==
  CASE s = "2024-12-05" -> 5
    [] s = "2024-12-10" -> 10
    [] OTHER -> 0

\* parse(`${date} ${time}`, 'yyyy-MM-dd HH:mm', new Date()), as an instant
ParseDateTime(dateText, time) ==
  DayNumber(dateText) * 1440 + time[1] * 60 + time[2]

\* ------------------------------------------------------------------- tasks

ChecklistItem(n, done) ==
  [id |-> n, text |-> "item", completed |-> done]

\* the checklist whose items have the given completed flags
ChecklistOf(flags) == [i \in 1..Len(flags) |-> ChecklistItem(i, flags[i])]

Task(id, date, start, end, checklist, completed) ==
  [id |-> id, projectId |-> "1", title |-> "task", date |-> date,
   startTime |-> start, endTime |-> end, description |-> "",
   checklist |-> checklist, contentIdeas |-> <<>>, completed |-> completed]

\* the default projects of loadData
Projects ==
  << [id |-> "1", name |-> "Holiday Baking", color |-> "#ef4444"],
     [id |-> "2", name |-> "Gift Shopping", color |-> "#22c55e"],
     [id |-> "3", name |-> "Home Decoration", color |-> "#eab308"] >>

\* projects.find(p => p.id === id)?.color || fallback
ProjectColor(projectId, fallback) ==
  IF \E i \in 1..Len(Projects) : Projects[i].id = projectId
  THEN Projects[CHOOSE i \in 1..Len(Projects) :
                   /\ Projects[i].id = projectId
                   /\ \A j \in 1..(i-1) : Projects[j].id # projectId].color
  ELSE fallback

\* --------------------------------------------------------------- fractions

RatEq(a, b) == a[1] * b[2] = b[1] * a[2]
RatLeq(a, b) == a[1] * b[2] <= b[1] * a[2]

\* ----------------------------------------------------------------- scoring

\* checklist.filter(i => i.completed).length
CompletedCount(checklist) ==
  Cardinality({i \in 1..Len(checklist) : checklist[i].completed})

GetTaskStyleProgress_NoOverride(task) ==
  IF Len(task.checklist) = 0
  THEN (IF task.completed THEN <<1, 1>> ELSE <<0, 1>>)
  ELSE <<CompletedCount(task.checklist), Len(task.checklist)>>

\* getTaskStyle: the progress of a task (Calendar.tsx 68-76)
GetTaskStyleProgress(task) ==
  LET total == Len(task.checklist)
      completed == CompletedCount(task.checklist)
      progress == IF total = 0
                  THEN (IF task.completed THEN <<1, 1>> ELSE <<0, 1>>)
                  ELSE <<completed, total>>
  IN IF task.completed THEN <<1, 1>> ELSE progress

\* getTaskStyle: alpha = 0.15 + progress * 0.85 (Calendar.tsx 82)
GetTaskStyleAlpha(task) ==
  LET p == GetTaskStyleProgress(task)
  IN <<15 * p[2] + 85 * p[1], 100 * p[2]>>

\* the progress panel's contribution of one task to totalCompletionScore
\* (App.tsx 209-216)
PanelTaskScore(e) ==
  IF e.completed THEN <<1, 1>>
  ELSE IF Len(e.checklist) > 0
       THEN <<CompletedCount(e.checklist), Len(e.checklist)>>
       ELSE <<0, 1>>

\* getOpacity: the dial segment's stroke opacity (DayView)
GetOpacity(task) ==
  LET total == Len(task.checklist)
      completed == CompletedCount(task.checklist)
  IN IF task.completed THEN <<1, 1>>
     ELSE IF total = 0 THEN <<20, 100>>
     ELSE <<20 * total + 80 * completed, 100 * total>>

\* -------------------------------------------------------------- the dial

\* HH:mm -> minutes since midnight (startH * 60 + startM)
ToMinutes(time) == time[1] * 60 + time[2]

\* ((min / 60) % 12) * 30 + (min % 60) * 0.5, in half-degrees.  min / 60 is
\* a real number, so ((min / 60) % 12) * 30 is (min % 720) / 2 degrees: the
\* minutes past the hour are already in the first term.
MinuteAngle(min) == (min % 720) + (min % 60)

\* describeArc: the arc from startAngle to endAngle on a ring; the path is
\* kept by what decides its shape (radius, angles, large-arc and sweep flag)
DescribeArc(radius, startAngle, endAngle) ==
  [radius |-> radius, startAngle |-> startAngle, endAngle |-> endAngle,
   largeArcFlag |-> IF endAngle - startAngle <= 360 THEN 0 ELSE 1,
   sweepFlag |-> 0]

\* isWithinInterval(time, {start, end}) of date-fns: both ends included
IsWithinInterval(time, start, end) == start <= time /\ time <= end

\* addSegment(isPm, startMin, endMin) for a task; startMin and endMin are
\* kept with the segment for reference (the code keeps them in the path)
AddSegment(task, isPm, startMin, endMin, currentTime) ==
  LET startDeg == MinuteAngle(startMin)
      endDeg0 == MinuteAngle(endMin)
      endDeg == IF endDeg0 < startDeg THEN endDeg0 + 720 ELSE endDeg0
  IN [id |-> task.id,
      task |-> task,
      isPm |-> isPm,
      startMin |-> startMin,
      endMin |-> endMin,
      path |-> DescribeArc(IF isPm THEN RADIUS_PM ELSE RADIUS_AM, startDeg, endDeg),
      color |-> ProjectColor(task.projectId, "#cbd5e1"),
      isActive |-> IsWithinInterval(currentTime,
                      ParseDateTime(task.date.text, task.startTime),
                      ParseDateTime(task.date.text, task.endTime)),
      duration |-> endMin - startMin]

SplitTask_NoSplit(task, currentTime) ==
  LET startMinutes == ToMinutes(task.startTime)
      endMinutes == ToMinutes(task.endTime)
  IN IF startMinutes < NOON
     THEN << AddSegment(task, FALSE, startMinutes, endMinutes, currentTime) >>
     ELSE << AddSegment(task, TRUE, startMinutes, endMinutes, currentTime) >>

SplitTask_StrictNoon(task, currentTime) ==
  LET startMinutes == ToMinutes(task.startTime)
      endMinutes == ToMinutes(task.endTime)
  IN IF startMinutes < NOON /\ endMinutes < NOON
     THEN << AddSegment(task, FALSE, startMinutes, endMinutes, currentTime) >>
     ELSE IF startMinutes > NOON
     THEN << AddSegment(task, TRUE, startMinutes, endMinutes, currentTime) >>
     ELSE << AddSegment(task, FALSE, startMinutes, NOON, currentTime),
             AddSegment(task, TRUE, NOON, endMinutes, currentTime) >>

\* the split logic: the segments pushed for one task
SplitTask(task, currentTime) ==
  LET startMinutes == ToMinutes(task.startTime)
      endMinutes == ToMinutes(task.endTime)
  IN IF startMinutes < NOON /\ endMinutes <= NOON
     THEN << AddSegment(task, FALSE, startMinutes, endMinutes, currentTime) >>
     ELSE IF startMinutes >= NOON
     THEN << AddSegment(task, TRUE, startMinutes, endMinutes, currentTime) >>
     ELSE << AddSegment(task, FALSE, startMinutes, NOON, currentTime),
             AddSegment(task, TRUE, NOON, endMinutes, currentTime) >>

\* dayTasks.forEach(...): the segments in push order
RECURSIVE PushSegments(_, _)
PushSegments(dayTasks, currentTime) ==
  IF dayTasks = <<>> THEN <<>>
  ELSE SplitTask(Head(dayTasks), currentTime)
         \o PushSegments(Tail(dayTasks), currentTime)

\* one step of the stable sort: seg goes behind every segment that is not
\* shorter than it
InsertByDuration(sorted, seg) ==
  LET k == Cardinality({i \in 1..Len(sorted) : sorted[i].duration >= seg.duration})
  IN SubSeq(sorted, 1, k) \o <<seg>> \o SubSeq(sorted, k + 1, Len(sorted))

RECURSIVE SortFrom(_, _)
SortFrom(sorted, rest) ==
  IF rest = <<>> THEN sorted
  ELSE SortFrom(InsertByDuration(sorted, Head(rest)), Tail(rest))

SortByDuration_Unsorted(segments) == segments

RECURSIVE SortAscendingFrom(_, _)
SortAscendingFrom(sorted, rest) ==
  IF rest = <<>> THEN sorted
  ELSE LET seg == Head(rest)
           k == Cardinality({i \in 1..Len(sorted) : sorted[i].duration <= seg.duration})
       IN SortAscendingFrom(SubSeq(sorted, 1, k) \o <<seg>>
                              \o SubSeq(sorted, k + 1, Len(sorted)), Tail(rest))

SortByDuration_Ascending(segments) == SortAscendingFrom(<<>>, segments)

\* segments.sort((a, b) => b.duration - a.duration): stable, longest first
SortByDuration(segments) == SortFrom(<<>>, segments)

\* taskSegments: the memo of the day's segments in render order
TaskSegments(dayTasks, currentTime) ==
  SortByDuration(PushSegments(dayTasks, currentTime))


\* --------------------------------------------------------- the month grid

\* A calendar day is [y, m, d]; the grid works at whole days (the Date
\* values of date-fns at local midnight).

IsLeapYear(y) == (y % 4 = 0 /\ y % 100 # 0) \/ y % 400 = 0

DaysInMonth(y, m) ==
  CASE m = 2 -> (IF IsLeapYear(y) THEN 29 ELSE 28)
    [] m \in {4, 6, 9, 11} -> 30
    [] OTHER -> 31

RECURSIVE DaysBeforeMonth(_, _)
DaysBeforeMonth(y, m) ==
  IF m = 1 THEN 0 ELSE DaysBeforeMonth(y, m - 1) + DaysInMonth(y, m - 1)

\* the number of the day in the Gregorian calendar, counted from 0001-01-01
Ordinal(date) ==
  LET y1 == date.y - 1
  IN 365 * y1 + (y1 \div 4) - (y1 \div 100) + (y1 \div 400)
       + DaysBeforeMonth(date.y, date.m) + date.d

\* Date.prototype.getDay(): 0 is Sunday (0001-01-01 was a Monday)
GetDay(date) == Ordinal(date) % 7

NextDay(date) ==
  IF date.d < DaysInMonth(date.y, date.m) THEN [date EXCEPT !.d = @ + 1]
  ELSE IF date.m < 12 THEN [y |-> date.y, m |-> date.m + 1, d |-> 1]
  ELSE [y |-> date.y + 1, m |-> 1, d |-> 1]

PreviousDay(date) ==
  IF date.d > 1 THEN [date EXCEPT !.d = @ - 1]
  ELSE IF date.m > 1
  THEN [y |-> date.y, m |-> date.m - 1, d |-> DaysInMonth(date.y, date.m - 1)]
  ELSE [y |-> date.y - 1, m |-> 12, d |-> 31]

\* date.setDate(date.getDate() + n)
RECURSIVE AddDays(_, _)
AddDays(date, n) ==
  IF n = 0 THEN date
  ELSE IF n > 0 THEN AddDays(NextDay(date), n - 1)
  ELSE AddDays(PreviousDay(date), n + 1)

\* startOfMonth, endOfMonth of date-fns
StartOfMonth(date) == [date EXCEPT !.d = 1]
EndOfMonth(date) == [date EXCEPT !.d = DaysInMonth(date.y, date.m)]

StartOfWeek_Monday(date) == AddDays(date, 0 - ((GetDay(date) + 6) % 7))

\* startOfWeek, endOfWeek of date-fns with the default weekStartsOn = 0
StartOfWeek(date) == AddDays(date, 0 - GetDay(date))
EndOfWeek(date) == AddDays(date, 6 - GetDay(date))

RECURSIVE EachDayFrom(_, _)
EachDayFrom(date, count) ==
  IF count <= 0 THEN <<>>
  ELSE <<date>> \o EachDayFrom(NextDay(date), count - 1)

\* eachDayOfInterval({start, end}): every day from start to end
EachDayOfInterval(start, end) ==
  EachDayFrom(start, Ordinal(end) - Ordinal(start) + 1)

\* the days memo of Calendar
Days(date) ==
  LET monthStart == StartOfMonth(date)
      monthEnd == EndOfMonth(monthStart)
      startDate == StartOfWeek(monthStart)
      endDate == EndOfWeek(monthEnd)
  IN EachDayOfInterval(startDate, endDate)

\* ------------------------------------------------------- the day cells

\* the Date object of a calendar day (the date of a grid cell)
DateObject(day) == [kind |-> "Date", text |-> day]

\* isSameDay(a, b) of date-fns: a value that is no Date object (a string)
\* is an Invalid Date to it and is the same day as nothing
IsSameDay(a, b) ==
  /\ a.kind = "Date" /\ b.kind = "Date"
  /\ ~IsNaNDate(a) /\ ~IsNaNDate(b)
  /\ a.text = b.text

\* a.startTime.localeCompare(b.startTime) < 0 for "HH:mm" strings
StartsBefore(a, b) ==
  \/ a.startTime[1] < b.startTime[1]
  \/ a.startTime[1] = b.startTime[1] /\ a.startTime[2] < b.startTime[2]

\* one step of the stable sort by start time
InsertByStartTime(sorted, task) ==
  LET k == Cardinality({i \in 1..Len(sorted) : ~StartsBefore(task, sorted[i])})
  IN SubSeq(sorted, 1, k) \o <<task>> \o SubSeq(sorted, k + 1, Len(sorted))

RECURSIVE SortByStartTimeFrom(_, _)
SortByStartTimeFrom(sorted, rest) ==
  IF rest = <<>> THEN sorted
  ELSE SortByStartTimeFrom(InsertByStartTime(sorted, Head(rest)), Tail(rest))

\* getTasksForDay(date): the tasks of a cell by start time
GetTasksForDay(all, date) ==
  SortByStartTimeFrom(<<>>, SelectSeq(all, LAMBDA task : IsSameDay(task.date, date)))

\* isTimeNow(task) when new Date() is clock
IsTimeNow(task, clock) ==
  /\ task.date.kind = "Date" /\ ~IsNaNDate(task.date)
  /\ DayNumber(task.date.text) = clock \div 1440
  /\ IsWithinInterval(clock, ParseDateTime(task.date.text, task.startTime),
                             ParseDateTime(task.date.text, task.endTime))

\* dayTasks.findIndex(e => isTimeNow(e)), counted from 0; -1 when none
ActiveIndex(cellTasks, clock) ==
  IF \E i \in DOMAIN cellTasks : IsTimeNow(cellTasks[i], clock)
  THEN (CHOOSE i \in DOMAIN cellTasks :
          /\ IsTimeNow(cellTasks[i], clock)
          /\ \A j \in 1..(i-1) : ~IsTimeNow(cellTasks[j], clock)) - 1
  ELSE -1

maxVisible == 3

Max(a, b) == IF a >= b THEN a ELSE b
Min(a, b) == IF a <= b THEN a ELSE b

\* Array.prototype.slice(from, to) for 0 <= from
Slice(seq, from, to) == SubSeq(seq, from + 1, Min(to, Len(seq)))

DisplayStart_NotCentered(n, activeIndex) ==
  IF activeIndex # -1
  THEN (IF activeIndex + maxVisible > n THEN Max(0, n - maxVisible) ELSE activeIndex)
  ELSE 0

DisplayStart_NoClamp(n, activeIndex) ==
  IF activeIndex # -1 THEN Max(0, activeIndex - 1) ELSE 0

\* the start of the window of a cell with n > maxVisible tasks
DisplayStart(n, activeIndex) ==
  IF activeIndex # -1
  THEN LET start == Max(0, activeIndex - 1)
       IN IF start + maxVisible > n THEN Max(0, n - maxVisible) ELSE start
  ELSE 0

\* displayTasks of a cell
DisplayTasks(cellTasks, clock) ==
  IF Len(cellTasks) > maxVisible
  THEN LET start == DisplayStart(Len(cellTasks), ActiveIndex(cellTasks, clock))
       IN Slice(cellTasks, start, start + maxVisible)
  ELSE cellTasks

\* hasMore of a cell
HasMore(cellTasks) == Len(cellTasks) > maxVisible

\* the N of the "+ N more" label: dayTasks.length - displayTasks.length
MoreCount(cellTasks, clock) == Len(cellTasks) - Len(DisplayTasks(cellTasks, clock))

\* new Date(now.getFullYear(), 11, 1): December of the current year
December == [y |-> 2024, m |-> 12, d |-> 1]

\* ------------------------------------------------------------------- state

VARIABLES
  tasks,         \* App: the local task collection (a sequence of tasks)
  selectedTask,  \* App: the task of the detail modal, or Null
  adds,          \* App: the handleAddTasks calls made so far, each with its
                 \*   batch, the position of its loop and how it ended
  pending,       \* gateway: the updateTask and deleteTask calls in flight
  lastError,     \* console: the handler that logged the last console.error
  currentTime,   \* DayView: the instant of the last timer tick
  segments,      \* DayView: the taskSegments memo of the last render
  view,          \* App: "month" (Calendar mounted) or "day" (DayView mounted)
  now,           \* the wall clock: what new Date() returns
  selectedTaskId,     \* DayView: the id of the task selected on the dial
  explicitSelection,  \* history: the id the user last clicked on the dial
                      \*   since the day view was opened, none once that
                      \*   task has left the day's tasks
  currentDate,   \* Calendar: the currentDate prop, a calendar day
  days,          \* Calendar: the days memo, the cells of the month grid
  loading,       \* App: TRUE until loadData has finished
  projects,      \* App: the local project collection
  getProjects,   \* loadData: the state of its api.getProjects() call
  getTasks,      \* loadData: the state of its api.getTasks() call
  isLoading,     \* AIPlannerModal: the isLoading flag
  generatedEvents,  \* AIPlannerModal: the generated tasks not yet confirmed
  alerts,        \* window: the alert() dialogs raised so far
  generation,    \* generateSchedule: how its last call stands ("idle"
                 \*   before the first one)
  store,         \* server: the rows of the task, checklistItem and
                 \*   contentIdea tables
  callFailed,    \* history: TRUE once a gateway call was rejected
  lastResponse   \* server: the method and the HTTP status of the request
                 \*   it answered last

\* the state of the month grid's memo
gridVars == <<currentDate, days>>

\* the view, the clock and the dial's selection
dayVars == <<view, now, selectedTaskId, explicitSelection>>

vars == <<tasks, selectedTask, adds, pending, lastError, currentTime, segments,
          view, now, selectedTaskId, explicitSelection, currentDate, days,
          loading, projects, getProjects, getTasks, isLoading,
          generatedEvents, alerts, generation, store, callFailed, lastResponse>>

\* the state of the initial load
loadVars == <<projects, getProjects, getTasks>>

\* the state of the AI planner
plannerVars == <<isLoading, generatedEvents, alerts, generation>>

\* the state of the persistence server
serverVars == <<store, callFailed, lastResponse>>

\* the tables of a database without tasks
EmptyStore == [task |-> {}, checklistItem |-> {}, contentIdea |-> {}]

\* loadData has ended well: the default projects are shown
Loaded ==
  /\ projects = Projects
  /\ getProjects = "resolved"
  /\ getTasks = "resolved"

\* the AI planner as it is constructed
PlannerIdle ==
  /\ isLoading = FALSE
  /\ generatedEvents = <<>>
  /\ alerts = 0
  /\ generation = "idle"

\* the server of a database without tasks
ServerEmpty ==
  /\ store = EmptyStore
  /\ callFailed = FALSE
  /\ lastResponse = [method |-> "none", status |-> 0]

\* ------------------------------------------------------------ the day view

\* the date prop of the day view
ViewedDate == "2024-12-05"

\* parse(task.date, 'yyyy-MM-dd', new Date()): the day, 0 when the value is
\* no yyyy-MM-dd string (a Date object's String() form does not parse)
ParseDay(v) ==
  IF v.kind = "string" /\ v.text \in ValidDateStrings THEN DayNumber(v.text) ELSE 0

\* dayTasks: the tasks of the viewed date
DayTasks(all) ==
  SelectSeq(all, LAMBDA task : ParseDay(task.date) = DayNumber(ViewedDate))

\* the wall-clock strings the dial tasks draw their start and end from
TimeGrid == { <<10, 30>>, <<11, 0>>, <<11, 30>>, <<12, 0>>, <<12, 30>>, <<13, 0>> }

\* the instants the clock is read at: whole minutes of the viewed day, and
\* one instant of a later day
ClockInstants ==
  { ParseDateTime(ViewedDate, g) : g \in { <<11, 30>>, <<12, 0>>, <<12, 30>> } }
    \cup { ParseDateTime("2024-12-10", <<12, 0>>) }

TaskIds == << "a", "b", "c", "d", "e", "f", "g", "h" >>

\* a task of the viewed day; ids are given in list order
DialTask(n, start, end) == Task(TaskIds[n], StringDate(ViewedDate), start, end, <<>>, FALSE)

\* the null of selectedTaskId (useState<string | null>(null)): no task id,
\* and falsy in `if (selectedTaskId && ...)`
NoTaskId == ""

\* isSameDay(date, now) for the date prop of the day view
IsToday(clock) == clock \div 1440 = DayNumber(ViewedDate)

\* the test of dayTasks.find in the default selection effect
ContainsNow(e, clock) ==
  IsWithinInterval(clock, ParseDateTime(e.date.text, e.startTime),
                          ParseDateTime(e.date.text, e.endTime))

DefaultSelection_FirstTask(selected, dTasks, clock) ==
  IF selected # NoTaskId /\ \E i \in DOMAIN dTasks : dTasks[i].id = selected
  THEN selected
  ELSE IF IsToday(clock) /\ \E i \in DOMAIN dTasks : ContainsNow(dTasks[i], clock)
  THEN dTasks[CHOOSE i \in DOMAIN dTasks :
                /\ ContainsNow(dTasks[i], clock)
                /\ \A j \in 1..(i-1) : ~ContainsNow(dTasks[j], clock)].id
  ELSE IF selected = NoTaskId /\ Len(dTasks) > 0 THEN dTasks[1].id
  ELSE selected

DefaultSelection_NoKeep(selected, dTasks, clock) ==
  IF IsToday(clock) /\ \E i \in DOMAIN dTasks : ContainsNow(dTasks[i], clock)
  THEN dTasks[CHOOSE i \in DOMAIN dTasks :
                /\ ContainsNow(dTasks[i], clock)
                /\ \A j \in 1..(i-1) : ~ContainsNow(dTasks[j], clock)].id
  ELSE selected

\* the default selection effect: the value of selectedTaskId after the
\* effect has run with the given selection, day tasks and wall clock
DefaultSelection(selected, dTasks, clock) ==
  IF selected # NoTaskId /\ \E i \in DOMAIN dTasks : dTasks[i].id = selected
  THEN selected
  ELSE IF IsToday(clock) /\ \E i \in DOMAIN dTasks : ContainsNow(dTasks[i], clock)
  THEN dTasks[CHOOSE i \in DOMAIN dTasks :
                /\ ContainsNow(dTasks[i], clock)
                /\ \A j \in 1..(i-1) : ~ContainsNow(dTasks[j], clock)].id
  ELSE selected

\* the history of the user's click: forgotten once its task is no longer
\* among the day's tasks
StillThere(id, dTasks) ==
  IF \E i \in DOMAIN dTasks : dTasks[i].id = id THEN id ELSE NoTaskId

\* the tasks prop gains a task of the viewed day (any start <= end of the
\* grid: the code accepts start = end); the render that follows recomputes
\* the memo and runs the default selection effect
DayTaskAdded(max) ==
  /\ view = "day"
  /\ Len(tasks) < max
  /\ \E s \in TimeGrid, e \in TimeGrid :
       /\ ToMinutes(s) <= ToMinutes(e)
       /\ tasks' = Append(tasks, DialTask(Len(tasks) + 1, s, e))
  /\ segments' = TaskSegments(DayTasks(tasks'), currentTime)
  /\ selectedTaskId' = DefaultSelection(selectedTaskId, DayTasks(tasks'), now)
  /\ UNCHANGED <<selectedTask, adds, pending, lastError, currentTime,
                 view, now, explicitSelection, gridVars, loading, loadVars,
               plannerVars, serverVars>>

\* the one-minute timer: setCurrentTime(new Date()), then the memo is
\* recomputed by the render that follows (the effect does not depend on
\* currentTime and does not run)
Tick ==
  /\ view = "day"
  /\ \E t \in ClockInstants :
        /\ t > currentTime
        /\ t >= now
        /\ now' = t
        /\ currentTime' = t
  /\ segments' = TaskSegments(DayTasks(tasks), currentTime')
  /\ UNCHANGED <<tasks, selectedTask, adds, pending, lastError,
                 view, selectedTaskId, explicitSelection, gridVars, loading, loadVars,
               plannerVars, serverVars>>

\* time passes: the next render (the tick of App's timer at the latest)
\* reads a later new Date()
TimePasses ==
  /\ \E t \in ClockInstants :
       /\ t > now
       /\ now' = t
  /\ UNCHANGED <<tasks, selectedTask, adds, pending, lastError, currentTime,
                 segments, gridVars, loading, loadVars,
               plannerVars, serverVars, view, selectedTaskId, explicitSelection>>

\* the layout of a day: the clock stands at noon of the viewed day
InitDial ==
  /\ tasks = <<>>
  /\ selectedTask = Null
  /\ adds = <<>>
  /\ pending = <<>>
  /\ lastError = "none"
  /\ currentTime = ParseDateTime(ViewedDate, <<12, 0>>)
  /\ segments = TaskSegments(DayTasks(tasks), currentTime)
  /\ view = "day"
  /\ now = currentTime
  /\ selectedTaskId = NoTaskId
  /\ explicitSelection = NoTaskId
  /\ currentDate = December
  /\ days = <<>>
  /\ loading = FALSE
  /\ Loaded
  /\ PlannerIdle
  /\ ServerEmpty

NextDial == DayTaskAdded(MaxDayTasks)

SpecDial == InitDial /\ [][NextDial]_vars

\* the dial under the clock: the timer ticks while tasks arrive
InitClock ==
  /\ tasks = <<>>
  /\ selectedTask = Null
  /\ adds = <<>>
  /\ pending = <<>>
  /\ lastError = "none"
  /\ currentTime \in ClockInstants
  /\ segments = TaskSegments(DayTasks(tasks), currentTime)
  /\ view = "day"
  /\ now = currentTime
  /\ selectedTaskId = NoTaskId
  /\ explicitSelection = NoTaskId
  /\ currentDate = December
  /\ days = <<>>
  /\ loading = FALSE
  /\ Loaded
  /\ PlannerIdle
  /\ ServerEmpty

NextClock == DayTaskAdded(MaxClockTasks) \/ Tick

SpecClock == InitClock /\ [][NextClock]_vars

\* ------------------------------------------ opening and leaving the day

\* the render of DayView after its tasks prop has become newTasks: the memo
\* and the default selection effect run when the day view is mounted
TasksPropSet(newTasks) ==
  /\ tasks' = newTasks
  /\ IF view = "day"
     THEN /\ segments' = TaskSegments(DayTasks(newTasks), currentTime)
          /\ selectedTaskId' = DefaultSelection(selectedTaskId, DayTasks(newTasks), now)
     ELSE UNCHANGED <<segments, selectedTaskId>>
  /\ explicitSelection' = StillThere(explicitSelection, DayTasks(newTasks))
  /\ UNCHANGED <<selectedTask, adds, pending, lastError, currentTime, view, now,
                 gridVars, loading, loadVars,
               plannerVars, serverVars>>

\* the collection gains a task of one hour on the viewed day
TaskScheduled ==
  /\ Len(tasks) < MaxClockTasks
  /\ \E s \in TimeGrid, e \in TimeGrid :
       /\ ToMinutes(e) = ToMinutes(s) + 60
       /\ TasksPropSet(Append(tasks, DialTask(Len(tasks) + 1, s, e)))

\* a task of the viewed day is moved to another day
TaskRescheduled ==
  \E j \in DOMAIN tasks :
    /\ ParseDay(tasks[j].date) = DayNumber(ViewedDate)
    /\ TasksPropSet([tasks EXCEPT ![j].date = StringDate("2024-12-10")])

\* handleDayClick on the cell of the viewed date: DayView is mounted with
\* its initial state, and its effect runs
HandleDayClick ==
  /\ view = "month"
  /\ view' = "day"
  /\ currentTime' = now
  /\ segments' = TaskSegments(DayTasks(tasks), now)
  /\ selectedTaskId' = DefaultSelection(NoTaskId, DayTasks(tasks), now)
  /\ UNCHANGED <<tasks, selectedTask, adds, pending, lastError, now,
                 explicitSelection, gridVars, loading, loadVars,
               plannerVars, serverVars>>

\* onBack: setView('month') unmounts DayView, whose state is lost
OnBack ==
  /\ view = "day"
  /\ view' = "month"
  /\ selectedTaskId' = NoTaskId
  /\ explicitSelection' = NoTaskId
  /\ segments' = <<>>
  /\ UNCHANGED <<tasks, selectedTask, adds, pending, lastError, currentTime, now,
                 gridVars, loading, loadVars,
               plannerVars, serverVars>>

\* the click on a segment: setSelectedTaskId(seg.id); the effect runs and
\* keeps a selection that is among the day's tasks
SegmentClick(id) ==
  /\ view = "day"
  /\ \E i \in DOMAIN segments : segments[i].id = id
  /\ selectedTaskId' = DefaultSelection(id, DayTasks(tasks), now)
  /\ explicitSelection' = id
  /\ UNCHANGED <<tasks, selectedTask, adds, pending, lastError, currentTime,
                 segments, view, now, gridVars, loading, loadVars,
               plannerVars, serverVars>>

\* the application in the month view, before any task is loaded
InitDay ==
  /\ tasks = <<>>
  /\ selectedTask = Null
  /\ adds = <<>>
  /\ pending = <<>>
  /\ lastError = "none"
  /\ now \in ClockInstants
  /\ currentTime = now
  /\ segments = <<>>
  /\ view = "month"
  /\ selectedTaskId = NoTaskId
  /\ explicitSelection = NoTaskId
  /\ currentDate = December
  /\ days = Days(currentDate)
  /\ loading = FALSE
  /\ Loaded
  /\ PlannerIdle
  /\ ServerEmpty

NextDayView ==
  \/ TaskScheduled
  \/ TaskRescheduled
  \/ HandleDayClick
  \/ OnBack
  \/ TimePasses
  \/ Tick
  \/ \E n \in DOMAIN TaskIds : SegmentClick(TaskIds[n])

SpecDay == InitDay /\ [][NextDayView]_vars

\* --------------------------------------------------- the persistence server

\* JSON.stringify of a date field: a Date object becomes its ISO string
JsonDate(d) == IF d.kind = "Date" THEN [kind |-> "iso", text |-> d.text] ELSE d

\* JSON.stringify(task): the body of a request
ToJSON(task) == [task EXCEPT !.date = JsonDate(@)]

\* the scalar fields of a task, as a row of the task table
TaskRow(taskId, body) ==
  [id |-> taskId, projectId |-> body.projectId, title |-> body.title,
   date |-> body.date, startTime |-> body.startTime, endTime |-> body.endTime,
   description |-> body.description, completed |-> body.completed]

\* the rows of a checklist.  Item ids are crypto.randomUUID() values, never
\* shared by two tasks; here they are numbered within their task
ChecklistRows(taskId, checklist) ==
  { [id |-> checklist[i].id, taskId |-> taskId, text |-> checklist[i].text,
     completed |-> checklist[i].completed] : i \in DOMAIN checklist }

\* the rows of a list of content ideas
IdeaRows(taskId, contentIdeas) ==
  { [id |-> contentIdeas[i].id, taskId |-> taskId, type |-> contentIdeas[i].type,
     text |-> contentIdeas[i].text] : i \in DOMAIN contentIdeas }

HasTask(db, taskId) == \E r \in db.task : r.id = taskId

\* the statement of the transaction of app.put at which the database raises
\* an error: 0 for none, 1..4 for the deleteMany and createMany calls
Failures == 0..4

\* app.post('/tasks'): prisma.task.create with its nested rows; an id that
\* is stored already violates the primary key
PostTask(db, body) ==
  IF HasTask(db, body.id)
  THEN [db |-> db, status |-> 500]
  ELSE [db |-> [task |-> db.task \cup {TaskRow(body.id, body)},
                checklistItem |->
                  db.checklistItem \cup ChecklistRows(body.id, body.checklist),
                contentIdea |->
                  db.contentIdea \cup IdeaRows(body.id, body.contentIdeas)],
        status |-> 200]

\* the statements of the transaction of app.put, one after the other
PutUpdate(db, taskId, body) ==
  [db EXCEPT !.task = {r \in @ : r.id # taskId} \cup {TaskRow(taskId, body)}]

PutDeleteChecklist(db, taskId) ==
  [db EXCEPT !.checklistItem = {r \in @ : r.taskId # taskId}]

PutCreateChecklist(db, taskId, body) ==
  [db EXCEPT !.checklistItem = @ \cup ChecklistRows(taskId, body.checklist)]

PutDeleteIdeas(db, taskId) ==
  [db EXCEPT !.contentIdea = {r \in @ : r.taskId # taskId}]

PutCreateIdeas(db, taskId, body) ==
  [db EXCEPT !.contentIdea = @ \cup IdeaRows(taskId, body.contentIdeas)]

\* the database after the first n statements of the transaction
RECURSIVE PutSteps(_, _, _, _)
PutSteps(db, taskId, body, n) ==
  IF n = 0 THEN db
  ELSE LET before == PutSteps(db, taskId, body, n - 1) IN
       CASE n = 1 -> PutUpdate(before, taskId, body)
         [] n = 2 -> PutDeleteChecklist(before, taskId)
         [] n = 3 -> PutCreateChecklist(before, taskId, body)
         [] n = 4 -> PutDeleteIdeas(before, taskId)
         [] OTHER -> PutCreateIdeas(before, taskId, body)

PutTask_NoTransaction(db, taskId, body, failAt) ==
  IF ~HasTask(db, taskId) THEN [db |-> db, status |-> 500]
  ELSE IF failAt # 0 THEN [db |-> PutSteps(db, taskId, body, failAt), status |-> 500]
  ELSE [db |-> PutSteps(db, taskId, body, 5), status |-> 200]

\* app.put('/tasks/:id'): prisma.$transaction commits the five statements
\* together or, when tx.task.update finds no task or a statement fails,
\* none of them
PutTask(db, taskId, body, failAt) ==
  IF ~HasTask(db, taskId) \/ failAt # 0
  THEN [db |-> db, status |-> 500]
  ELSE [db |-> PutSteps(db, taskId, body, 5), status |-> 200]

\* app.delete('/tasks/:id'): prisma.task.delete, which finds the task or
\* fails; the rows of the task go with it
DeleteTask(db, taskId) ==
  IF ~HasTask(db, taskId)
  THEN [db |-> db, status |-> 500]
  ELSE [db |-> [task |-> {r \in db.task : r.id # taskId},
                checklistItem |-> {r \in db.checklistItem : r.taskId # taskId},
                contentIdea |-> {r \in db.contentIdea : r.taskId # taskId}],
        status |-> 200]

\* the stored task of an id with its rows included, as app.get('/tasks')
\* sends it
StoredWithRows(db, taskId) ==
  LET r == CHOOSE r \in db.task : r.id = taskId
      items == {c \in db.checklistItem : c.taskId = taskId}
      ideas == {c \in db.contentIdea : c.taskId = taskId}
  IN [id |-> r.id, projectId |-> r.projectId, title |-> r.title,
      date |-> r.date, startTime |-> r.startTime, endTime |-> r.endTime,
      description |-> r.description, completed |-> r.completed,
      checklist |->
        [i \in 1..Cardinality(items) |->
           LET c == CHOOSE c \in items : c.id = i
           IN [id |-> c.id, text |-> c.text, completed |-> c.completed]],
      contentIdeas |->
        [i \in 1..Cardinality(ideas) |->
           LET c == CHOOSE c \in ideas : c.id = i
           IN [id |-> c.id, type |-> c.type, text |-> c.text]]]

\* app.get('/tasks'): prisma.task.findMany with the rows included
ListTasks(db) ==
  LET ids == SelectSeq(TaskIds, LAMBDA id : HasTask(db, id))
  IN [i \in 1..Len(ids) |-> StoredWithRows(db, ids[i])]

\* the database after the POST requests of some tasks
RECURSIVE StoreOf(_)
StoreOf(bodies) ==
  IF bodies = <<>> THEN EmptyStore
  ELSE PostTask(StoreOf(SubSeq(bodies, 1, Len(bodies) - 1)),
                bodies[Len(bodies)]).db

\* the server's answer to a call of the gateway
ServerHandles(db, call) ==
  IF call.op = "updateTask"
  THEN [db |-> PutTask(db, call.task.id, ToJSON(call.task), 0).db,
        response |-> [method |-> "PUT",
                      status |-> PutTask(db, call.task.id, ToJSON(call.task), 0).status]]
  ELSE [db |-> DeleteTask(db, call.id).db,
        response |-> [method |-> "DELETE", status |-> DeleteTask(db, call.id).status]]

\* a task as a request body carries it
RequestBody(taskId, flags, ideas, completed) ==
  [ToJSON(Task(taskId, DateObject(ViewedDate), <<11, 0>>, <<12, 0>>,
               ChecklistOf(flags), completed))
     EXCEPT !.contentIdeas =
              [i \in 1..ideas |-> [id |-> i, type |-> "video", text |-> "idea"]]]

\* the request bodies for the task of an id, with at most MaxRows rows
RequestBodies(taskId) ==
  { RequestBody(taskId, flags, ideas, completed) :
      flags \in UNION { [1..n -> BOOLEAN] : n \in 0..MaxRows },
      ideas \in 0..MaxRows,
      completed \in BOOLEAN }

\* the ids of the tasks of the requests
RequestIds == {TaskIds[1], TaskIds[2]}

\* the server answers a POST /tasks request
ServerPost(body) ==
  /\ store' = PostTask(store, body).db
  /\ lastResponse' = [method |-> "POST", status |-> PostTask(store, body).status]
  /\ UNCHANGED <<tasks, selectedTask, adds, pending, lastError, currentTime,
                 segments, gridVars, dayVars, loading, loadVars, plannerVars,
                 callFailed>>

\* the server answers a PUT /tasks/:id request
ServerPut(taskId, body, failAt) ==
  /\ store' = PutTask(store, taskId, body, failAt).db
  /\ lastResponse' = [method |-> "PUT",
                      status |-> PutTask(store, taskId, body, failAt).status]
  /\ UNCHANGED <<tasks, selectedTask, adds, pending, lastError, currentTime,
                 segments, gridVars, dayVars, loading, loadVars, plannerVars,
                 callFailed>>

\* -------------------------------------------------------- the application

\* the date strings the generated tasks of a batch may carry
BatchDateStrings == { "2024-12-05", "next tuesday" }

RECURSIVE BatchTasksIn(_)
BatchTasksIn(calls) ==
  IF calls = <<>> THEN 0 ELSE Len(Head(calls).newTasks) + BatchTasksIn(Tail(calls))

\* the number of ids given out so far (crypto.randomUUID() never repeats)
Created == BatchTasksIn(adds)

\* a task as handleConfirm of the planner passes it: a fresh id, the date
\* string of the generator, not completed
GeneratedTask(n, dateString) ==
  Task(TaskIds[n], StringDate(dateString), <<11, 0>>, <<12, 0>>, <<>>, FALSE)

\* task.date = jsDate on an object of a batch.  The local collection and the
\* selected task hold that same object for as long as their entry of that id
\* keeps a string date: every object handleUpdateTask stores has a Date.
DateSetInPlace(obj, id, jsDate) ==
  IF obj # Null /\ obj.id = id /\ obj.date.kind = "string"
  THEN [obj EXCEPT !.date = jsDate]
  ELSE obj

\* handleAddTasks(newTasks): the optimistic append, then the first turn of
\* the loop up to its first await (or its return at a date that does not
\* parse)
HandleAddTasks(newTasks) ==
  LET jsDate == NewDate(newTasks[1].date) IN
  /\ IF IsNaNDate(jsDate)
     THEN /\ tasks' = tasks \o newTasks
          /\ adds' = Append(adds, [newTasks |-> newTasks, i |-> 1, sent |-> 0,
                                   status |-> "aborted"])
          /\ lastError' = "handleAddTasks"
     ELSE LET started == [i \in 1..Len(newTasks) |->
                            IF i = 1 THEN [newTasks[i] EXCEPT !.date = jsDate]
                            ELSE newTasks[i]]
          IN
          /\ tasks' = tasks \o started
          /\ adds' = Append(adds, [newTasks |-> started, i |-> 1, sent |-> 1,
                                   status |-> "awaiting"])
          /\ UNCHANGED lastError
  /\ UNCHANGED <<selectedTask, pending, currentTime, segments,
               gridVars, loading, loadVars,
               serverVars, dayVars>>

\* await api.createTask(task) of call k resolves: the loop goes on with the
\* next task of the batch, up to the next await or return
CreateTaskReturns(k) ==
  /\ adds[k].status = "awaiting"
  /\ LET n == adds[k].i + 1 IN
     IF n > Len(adds[k].newTasks)
     THEN /\ adds' = [adds EXCEPT ![k].status = "done"]
          /\ UNCHANGED <<tasks, selectedTask, lastError>>
     ELSE LET task == adds[k].newTasks[n]
              jsDate == NewDate(task.date)
          IN IF IsNaNDate(jsDate)
             THEN /\ adds' = [adds EXCEPT ![k].i = n, ![k].status = "aborted"]
                  /\ lastError' = "handleAddTasks"
                  /\ UNCHANGED <<tasks, selectedTask>>
             ELSE /\ adds' = [adds EXCEPT ![k].i = n, ![k].sent = @ + 1,
                                          ![k].newTasks[n].date = jsDate]
                  /\ tasks' = [j \in DOMAIN tasks |->
                                 DateSetInPlace(tasks[j], task.id, jsDate)]
                  /\ selectedTask' = DateSetInPlace(selectedTask, task.id, jsDate)
                  /\ UNCHANGED lastError
  /\ LET answer == PostTask(store, ToJSON(adds[k].newTasks[adds[k].i])) IN
       /\ store' = answer.db
       /\ lastResponse' = [method |-> "POST", status |-> answer.status]
  /\ UNCHANGED <<pending, currentTime, segments,
               gridVars, loading, loadVars,
               plannerVars, callFailed, dayVars>>

CreateTaskFails_Rollback(k) ==
  /\ adds[k].status = "awaiting"
  /\ adds' = [adds EXCEPT ![k].status = "failed"]
  /\ tasks' = SelectSeq(tasks, LAMBDA e :
                 \A i \in DOMAIN adds[k].newTasks : adds[k].newTasks[i].id # e.id)
  /\ callFailed' = TRUE
  /\ UNCHANGED <<selectedTask, pending, lastError, currentTime, segments,
               gridVars, loading, loadVars,
               plannerVars, store, lastResponse, dayVars>>

CreateTaskFails_Continues(k) ==
  /\ adds[k].status = "awaiting"
  /\ adds' = IF adds[k].i < Len(adds[k].newTasks)
             THEN [adds EXCEPT ![k].i = @ + 1, ![k].sent = @ + 1]
             ELSE [adds EXCEPT ![k].status = "failed"]
  /\ callFailed' = TRUE
  /\ UNCHANGED <<tasks, selectedTask, pending, lastError, currentTime, segments,
               gridVars, loading, loadVars,
               plannerVars, store, lastResponse, dayVars>>

\* await api.createTask(task) of call k rejects (fetch fails: the request
\* has not reached the server): the exception leaves the loop and the
\* handler
CreateTaskFails(k) ==
  /\ adds[k].status = "awaiting"
  /\ adds' = [adds EXCEPT ![k].status = "failed"]
  /\ callFailed' = TRUE
  /\ UNCHANGED <<tasks, selectedTask, pending, lastError, currentTime, segments,
               gridVars, loading, loadVars,
               plannerVars, store, lastResponse, dayVars>>

HandleUpdateTask_CheckAfterStore(updatedTask) ==
  LET jsDate == NewDate(updatedTask.date)
      stored == [updatedTask EXCEPT !.date = jsDate]
  IN
  /\ Len(pending) < MaxPending
  /\ tasks' = [j \in DOMAIN tasks |->
                 IF tasks[j].id = stored.id THEN stored ELSE tasks[j]]
  /\ selectedTask' = IF selectedTask # Null /\ selectedTask.id = stored.id
                     THEN stored ELSE selectedTask
  /\ IF IsNaNDate(jsDate)
     THEN /\ lastError' = "handleUpdateTask"
          /\ UNCHANGED pending
     ELSE /\ pending' = Append(pending, [op |-> "updateTask", task |-> stored])
          /\ UNCHANGED lastError
  /\ UNCHANGED <<adds, currentTime, segments,
               gridVars, loading, loadVars,
               plannerVars, serverVars, dayVars>>

\* handleUpdateTask(updatedTask)
HandleUpdateTask(updatedTask) ==
  LET jsDate == NewDate(updatedTask.date) IN
  /\ Len(pending) < MaxPending
  /\ IF IsNaNDate(jsDate)
     THEN /\ lastError' = "handleUpdateTask"
          /\ UNCHANGED <<tasks, selectedTask, pending>>
     ELSE LET stored == [updatedTask EXCEPT !.date = jsDate] IN
          /\ tasks' = [j \in DOMAIN tasks |->
                         IF tasks[j].id = stored.id THEN stored ELSE tasks[j]]
          /\ selectedTask' = IF selectedTask # Null /\ selectedTask.id = stored.id
                             THEN stored ELSE selectedTask
          /\ pending' = Append(pending, [op |-> "updateTask", task |-> stored])
          /\ UNCHANGED lastError
  /\ UNCHANGED <<adds, currentTime, segments,
               gridVars, loading, loadVars,
               plannerVars, serverVars, dayVars>>

HandleMoveTask_ResetsTimes(task, newDate) ==
  HandleUpdateTask([task EXCEPT !.date = newDate,
                                !.startTime = <<0, 0>>, !.endTime = <<0, 0>>])

\* handleMoveTask(task, newDate)
HandleMoveTask(task, newDate) ==
  HandleUpdateTask([task EXCEPT !.date = newDate])

HandleDeleteTask_KeepsSelection(taskId) ==
  /\ Len(pending) < MaxPending
  /\ tasks' = SelectSeq(tasks, LAMBDA e : e.id # taskId)
  /\ pending' = Append(pending, [op |-> "deleteTask", id |-> taskId])
  /\ UNCHANGED <<selectedTask, adds, lastError, currentTime, segments,
               gridVars, loading, loadVars,
               plannerVars, serverVars, dayVars>>

\* handleDeleteTask(taskId)
HandleDeleteTask(taskId) ==
  /\ Len(pending) < MaxPending
  /\ tasks' = SelectSeq(tasks, LAMBDA e : e.id # taskId)
  /\ selectedTask' = Null
  /\ pending' = Append(pending, [op |-> "deleteTask", id |-> taskId])
  /\ UNCHANGED <<adds, lastError, currentTime, segments,
               gridVars, loading, loadVars,
               plannerVars, serverVars, dayVars>>

\* the planner's confirm: a batch of freshly generated tasks is added
ConfirmPlan ==
  \E n \in 1..(MaxTasks - Created) :
    \E dates \in [1..n -> BatchDateStrings] :
      /\ HandleAddTasks([i \in 1..n |-> GeneratedTask(Created + i, dates[i])])
      /\ UNCHANGED plannerVars

\* the task is shown in a cell of the month grid
ShownInGrid(task) ==
  \E day \in ValidDateStrings : IsSameDay(task.date, DateObject(day))

\* handleDrop: a task shown in the month grid is dropped on the cell of a day
Drop ==
  /\ view = "month"
  /\ \E j \in DOMAIN tasks, day \in ValidDateStrings :
       /\ ShownInGrid(tasks[j])
       /\ HandleMoveTask(tasks[j], DateObject(day))

\* onTaskClick = setSelectedTask: a task of the month grid is clicked
TaskClick ==
  /\ view = "month"
  /\ \E j \in DOMAIN tasks :
       /\ ShownInGrid(tasks[j])
       /\ selectedTask' = tasks[j]
  /\ UNCHANGED <<tasks, adds, pending, lastError, currentTime, segments,
               gridVars, loading, loadVars,
               plannerVars, serverVars, dayVars>>

\* the detail modal's onClose
CloseModal ==
  /\ selectedTask # Null
  /\ selectedTask' = Null
  /\ UNCHANGED <<tasks, adds, pending, lastError, currentTime, segments,
               gridVars, loading, loadVars,
               plannerVars, serverVars, dayVars>>

\* a field edit in the detail modal: onUpdateTask with a copy of the shown
\* task whose date field holds what was typed
EditTask ==
  /\ selectedTask # Null
  /\ \E typed \in DateStrings :
       HandleUpdateTask([selectedTask EXCEPT !.date = StringDate(typed)])

\* the detail modal's delete button
DeleteClick ==
  /\ selectedTask # Null
  /\ HandleDeleteTask(selectedTask.id)

\* an updateTask or deleteTask call in flight is answered by the server and
\* resolves, whatever the status of the answer (res.ok is not looked at);
\* the handler has nothing left to do.  The calls in flight are answered in
\* any order
GatewayReturns ==
  /\ \E j \in DOMAIN pending :
       /\ pending' = SubSeq(pending, 1, j - 1) \o SubSeq(pending, j + 1, Len(pending))
       /\ store' = ServerHandles(store, pending[j]).db
       /\ lastResponse' = ServerHandles(store, pending[j]).response
  /\ UNCHANGED <<tasks, selectedTask, adds, lastError, currentTime, segments,
               gridVars, loading, loadVars,
               plannerVars, callFailed, dayVars>>

\* an updateTask or deleteTask call in flight is rejected (fetch fails: the
\* request has not reached the server); nothing catches the rejection
GatewayFails ==
  /\ \E j \in DOMAIN pending :
       pending' = SubSeq(pending, 1, j - 1) \o SubSeq(pending, j + 1, Len(pending))
  /\ callFailed' = TRUE
  /\ UNCHANGED <<tasks, selectedTask, adds, lastError, currentTime, segments,
               gridVars, loading, loadVars,
               plannerVars, store, lastResponse, dayVars>>

\* the application after loadData found no tasks; the month view is shown
Init ==
  /\ tasks = <<>>
  /\ selectedTask = Null
  /\ adds = <<>>
  /\ pending = <<>>
  /\ lastError = "none"
  /\ currentTime = ParseDateTime(ViewedDate, <<12, 0>>)
  /\ segments = <<>>
  /\ view = "month"
  /\ now = currentTime
  /\ selectedTaskId = NoTaskId
  /\ explicitSelection = NoTaskId
  /\ currentDate = December
  /\ days = Days(currentDate)
  /\ loading = FALSE
  /\ Loaded
  /\ PlannerIdle
  /\ ServerEmpty

Next ==
  \/ ConfirmPlan
  \/ \E k \in DOMAIN adds : CreateTaskReturns(k)
  \/ \E k \in DOMAIN adds : CreateTaskFails(k)
  \/ Drop
  \/ TaskClick
  \/ CloseModal
  \/ EditTask
  \/ DeleteClick
  \/ GatewayReturns
  \/ GatewayFails

Spec == Init /\ [][Next]_vars

\* the server alone, answering the requests that reach it
NextServer ==
  \/ \E id \in RequestIds : \E body \in RequestBodies(id) : ServerPost(body)
  \/ \E id \in RequestIds : \E body \in RequestBodies(id) :
       \E failAt \in Failures : ServerPut(id, body, failAt)

SpecServer == Init /\ [][NextServer]_vars

\* ----------------------------------------------------------- the AI planner

\* a generated task as generateSchedule returns it: no id yet
GeneratedEvent(dateString) == [date |-> StringDate(dateString)]

\* the lists of tasks a generation may return
GeneratedLists(max) ==
  UNION { [1..n -> {GeneratedEvent(d) : d \in BatchDateStrings}] : n \in 0..max }

\* handleGenerate up to its await.  The button that calls it is shown while
\* generatedEvents is empty and is disabled while isLoading or without
\* projects
HandleGenerate ==
  /\ generatedEvents = <<>>
  /\ ~isLoading
  /\ Len(projects) # 0
  /\ alerts < MaxAlerts
  /\ isLoading' = TRUE
  /\ generatedEvents' = <<>>
  /\ generation' = "running"
  /\ UNCHANGED <<tasks, selectedTask, adds, pending, lastError, currentTime,
                 segments, gridVars, dayVars, loading, loadVars, alerts,
                 serverVars>>

\* await generateSchedule(...) resolves: setGeneratedEvents(events), then
\* the finally
GenerateReturns ==
  /\ generation = "running"
  /\ \E events \in GeneratedLists(MaxTasks - Created) :
       generatedEvents' = events
  /\ isLoading' = FALSE
  /\ generation' = "done"
  /\ UNCHANGED <<tasks, selectedTask, adds, pending, lastError, currentTime,
                 segments, gridVars, dayVars, loading, loadVars, alerts,
                 serverVars>>

GenerateFails_NoFinally ==
  /\ generation = "running"
  /\ alerts' = alerts + 1
  /\ generation' = "failed"
  /\ UNCHANGED <<tasks, selectedTask, adds, pending, lastError, currentTime,
                 segments, gridVars, dayVars, loading, loadVars, isLoading,
                 generatedEvents, serverVars>>

\* await generateSchedule(...) rejects: the catch raises the alert, then
\* the finally
GenerateFails ==
  /\ generation = "running"
  /\ alerts' = alerts + 1
  /\ isLoading' = FALSE
  /\ generation' = "failed"
  /\ UNCHANGED <<tasks, selectedTask, adds, pending, lastError, currentTime,
                 segments, gridVars, dayVars, loading, loadVars,
                 generatedEvents, serverVars>>

\* the Discard button
Discard ==
  /\ Len(generatedEvents) > 0
  /\ generatedEvents' = <<>>
  /\ UNCHANGED <<tasks, selectedTask, adds, pending, lastError, currentTime,
                 segments, gridVars, dayVars, loading, loadVars, isLoading,
                 alerts, generation, serverVars>>

\* handleConfirm: the generated tasks get their ids and are added
HandleConfirm ==
  /\ Len(generatedEvents) > 0
  /\ HandleAddTasks([i \in 1..Len(generatedEvents) |->
                       GeneratedTask(Created + i, generatedEvents[i].date.text)])
  /\ generatedEvents' = <<>>
  /\ UNCHANGED <<isLoading, alerts, generation>>

\* the planner is used on the loaded application
NextPlanner ==
  \/ HandleGenerate
  \/ GenerateReturns
  \/ GenerateFails
  \/ Discard
  \/ HandleConfirm
  \/ \E k \in DOMAIN adds : CreateTaskReturns(k)
  \/ \E k \in DOMAIN adds : CreateTaskFails(k)

SpecPlanner == Init /\ [][NextPlanner]_vars

\* ------------------------------------------------- the month view's cell

\* the tasks prop of Calendar gains a task of half an hour on the viewed
\* date, with the Date object the application stores
CellTaskAdded ==
  /\ view = "month"
  /\ Len(tasks) < MaxCellTasks
  /\ \E s \in TimeGrid, e \in TimeGrid :
       /\ ToMinutes(e) = ToMinutes(s) + 30
       /\ tasks' = Append(tasks, Task(TaskIds[Len(tasks) + 1], DateObject(ViewedDate),
                                      s, e, <<>>, FALSE))
  /\ UNCHANGED <<selectedTask, adds, pending, lastError, currentTime, segments,
                 gridVars, loading, loadVars,
               plannerVars, serverVars, dayVars>>

\* the month view at any of the instants
InitGrid ==
  /\ tasks = <<>>
  /\ selectedTask = Null
  /\ adds = <<>>
  /\ pending = <<>>
  /\ lastError = "none"
  /\ now \in ClockInstants
  /\ currentTime = ParseDateTime(ViewedDate, <<12, 0>>)
  /\ segments = <<>>
  /\ view = "month"
  /\ selectedTaskId = NoTaskId
  /\ explicitSelection = NoTaskId
  /\ currentDate = December
  /\ days = Days(currentDate)
  /\ loading = FALSE
  /\ Loaded
  /\ PlannerIdle
  /\ ServerEmpty

NextGrid == CellTaskAdded \/ TimePasses

SpecGrid == InitGrid /\ [][NextGrid]_vars

\* ------------------------------------------------ the month view's grid

\* Calendar is rendered with the next day as its currentDate prop, and the
\* days memo is recomputed
CurrentDateChanged ==
  /\ view = "month"
  /\ NextDay(currentDate).y < 2024 + MaxYears
  /\ currentDate' = NextDay(currentDate)
  /\ days' = Days(currentDate')
  /\ UNCHANGED <<tasks, selectedTask, adds, pending, lastError, currentTime,
                 segments, dayVars, loading, loadVars, plannerVars,
                 serverVars>>

\* Calendar with the first day of any month of 2024 as currentDate
InitMonth ==
  /\ tasks = <<>>
  /\ selectedTask = Null
  /\ adds = <<>>
  /\ pending = <<>>
  /\ lastError = "none"
  /\ currentTime = ParseDateTime(ViewedDate, <<12, 0>>)
  /\ segments = <<>>
  /\ view = "month"
  /\ now = currentTime
  /\ selectedTaskId = NoTaskId
  /\ explicitSelection = NoTaskId
  /\ currentDate \in { [y |-> 2024, m |-> mm, d |-> 1] : mm \in 1..12 }
  /\ days = Days(currentDate)
  /\ loading = FALSE
  /\ Loaded
  /\ PlannerIdle
  /\ ServerEmpty

NextMonth == CurrentDateChanged

SpecMonth == InitMonth /\ [][NextMonth]_vars

\* ------------------------------------------------------------ the scores

\* the checklists of at most MaxChecklist items, by their completed flags
FlagLists == UNION { [1..n -> BOOLEAN] : n \in 0..MaxChecklist }

\* a task as the gateway returns it: any checklist, completed or not, of
\* the first or the second project by turns
StoredTask(n, flags, completed) ==
  [Task(TaskIds[n], StringDate(ViewedDate), <<11, 0>>, <<12, 0>>,
        ChecklistOf(flags), completed)
     EXCEPT !.projectId = Projects[((n - 1) % 2) + 1].id]

\* loadData: both calls have resolved; setProjects, setTasks(loadedTasks)
\* with the tasks the gateway returned, then setLoading(false)
LoadData ==
  /\ loading
  /\ getProjects # "rejected" /\ getTasks # "rejected"
  /\ tasks' = ListTasks(store)
  /\ \E loadedProjects \in {<<>>, Projects} :
       projects' = IF Len(loadedProjects) = 0 THEN Projects ELSE loadedProjects
  /\ getProjects' = "resolved"
  /\ getTasks' = "resolved"
  /\ loading' = FALSE
  /\ UNCHANGED <<selectedTask, adds, pending, lastError, currentTime, segments,
               gridVars, dayVars, plannerVars, serverVars>>

GetProjectsResolves_SetsProjects ==
  /\ getProjects = "pending"
  /\ getTasks # "resolved"
  /\ getProjects' = "resolved"
  /\ projects' = Projects
  /\ UNCHANGED <<tasks, selectedTask, adds, pending, lastError, currentTime,
                 segments, gridVars, dayVars, loading, getTasks, plannerVars,
                 serverVars>>

\* api.getProjects() resolves while api.getTasks() has not resolved:
\* Promise.all waits (or has been rejected already)
GetProjectsResolves ==
  /\ getProjects = "pending"
  /\ getTasks # "resolved"
  /\ getProjects' = "resolved"
  /\ UNCHANGED <<tasks, selectedTask, adds, pending, lastError, currentTime,
                 segments, gridVars, dayVars, loading, projects, getTasks,
                 plannerVars, serverVars>>

\* api.getTasks() resolves while api.getProjects() has not resolved
GetTasksResolves ==
  /\ getTasks = "pending"
  /\ getProjects # "resolved"
  /\ getTasks' = "resolved"
  /\ UNCHANGED <<tasks, selectedTask, adds, pending, lastError, currentTime,
                 segments, gridVars, dayVars, loading, projects, getProjects,
                 plannerVars, serverVars>>

\* one of the two calls rejects.  The first rejection rejects Promise.all:
\* the catch logs it and the finally clears the loading flag; a rejection
\* after that goes unnoticed
LoadDataFails ==
  /\ \/ /\ getProjects = "pending"
        /\ getProjects' = "rejected"
        /\ UNCHANGED getTasks
     \/ /\ getTasks = "pending"
        /\ getTasks' = "rejected"
        /\ UNCHANGED getProjects
  /\ IF loading
     THEN lastError' = "loadData" /\ loading' = FALSE
     ELSE UNCHANGED <<lastError, loading>>
  /\ callFailed' = TRUE
  /\ UNCHANGED <<tasks, selectedTask, adds, pending, currentTime, segments,
                 gridVars, dayVars, projects, plannerVars, store, lastResponse>>

\* the application at start, while loadData is under way; the database
\* holds some tasks
InitLoading ==
  /\ tasks = <<>>
  /\ selectedTask = Null
  /\ adds = <<>>
  /\ pending = <<>>
  /\ lastError = "none"
  /\ currentTime = ParseDateTime(ViewedDate, <<12, 0>>)
  /\ segments = <<>>
  /\ view = "month"
  /\ now = currentTime
  /\ selectedTaskId = NoTaskId
  /\ explicitSelection = NoTaskId
  /\ currentDate = December
  /\ days = Days(currentDate)
  /\ loading = TRUE
  /\ projects = <<>>
  /\ getProjects = "pending"
  /\ getTasks = "pending"
  /\ PlannerIdle
  /\ \E n \in 1..MaxScoreTasks :
       \E stored \in [1..n -> FlagLists \X BOOLEAN] :
         store = StoreOf([i \in 1..n |->
                           StoredTask(i, stored[i][1], stored[i][2])])
  /\ callFailed = FALSE
  /\ lastResponse = [method |-> "none", status |-> 0]

\* the initial load with its two calls
NextLoad ==
  \/ GetProjectsResolves
  \/ GetTasksResolves
  \/ LoadData
  \/ LoadDataFails

SpecLoad == InitLoading /\ [][NextLoad]_vars

NextScore == LoadData

\* the application from its start to the end of loadData
SpecScore == InitLoading /\ [][NextScore]_vars

\* ------------------------------------------------- the progress panel

\* totalCompletionScore += ... : the sum of two fractions
RatAdd(a, b) == <<a[1] * b[2] + b[1] * a[2], a[2] * b[2]>>

\* pTasks.forEach(...): totalCompletionScore of a project's tasks
RECURSIVE TotalCompletionScore(_)
TotalCompletionScore(pTasks) ==
  IF pTasks = <<>> THEN <<0, 1>>
  ELSE RatAdd(PanelTaskScore(Head(pTasks)), TotalCompletionScore(Tail(pTasks)))

\* Math.round(x) for x = n/d >= 0: floor(x + 1/2)
MathRound(x) == (2 * x[1] + x[2]) \div (2 * x[2])

Percent_Truncated(score, total) == (score[1] * 100) \div (score[2] * total)

\* percent = Math.round((totalCompletionScore / total) * 100)
Percent(score, total) == MathRound(<<score[1] * 100, score[2] * total>>)

\* the row of project p in the progress panel: none for a project without
\* tasks, else the displayed percentage
ProgressRow(all, p) ==
  LET pTasks == SelectSeq(all, LAMBDA e : e.projectId = p.id)
      total == Len(pTasks)
  IN IF total = 0 THEN [shown |-> FALSE]
     ELSE [shown |-> TRUE, name |-> p.name, color |-> p.color,
           displayPercent |->
             Min(100, Max(0, Percent(TotalCompletionScore(pTasks), total)))]

\* toggleChecklistItem(task, itemId) of the day view
ToggleChecklistItem(task, itemId) ==
  LET updatedChecklist ==
        [i \in DOMAIN task.checklist |->
           IF task.checklist[i].id = itemId
           THEN [task.checklist[i] EXCEPT !.completed = ~@]
           ELSE task.checklist[i]]
  IN HandleUpdateTask([task EXCEPT !.checklist = updatedChecklist])

\* a checklist item of a task the day view shows is clicked
ChecklistClick ==
  \E j \in DOMAIN tasks :
    /\ ParseDay(tasks[j].date) = DayNumber(ViewedDate)
    /\ \E k \in DOMAIN tasks[j].checklist :
         ToggleChecklistItem(tasks[j], tasks[j].checklist[k].id)

\* onTaskClick(activeTask) of the day view: the detail modal is opened for
\* a task the day view shows
DialTaskOpen ==
  /\ \E j \in DOMAIN tasks :
       /\ ParseDay(tasks[j].date) = DayNumber(ViewedDate)
       /\ selectedTask' = tasks[j]
  /\ UNCHANGED <<tasks, adds, pending, lastError, currentTime, segments,
                 gridVars, loading, loadVars,
               plannerVars, serverVars, dayVars>>

\* the tasks are loaded, checklist items are toggled and tasks deleted
NextProgress ==
  \/ LoadData
  \/ ChecklistClick
  \/ DialTaskOpen
  \/ DeleteClick
  \/ GatewayReturns
  \/ GatewayFails

SpecProgress == InitLoading /\ [][NextProgress]_vars

\* the application with both views in use: a task of a batch can be opened
\* from the day view while it still has the date string of the generator
NextSync ==
  \/ Next
  \/ DialTaskOpen

SpecSync == Init /\ [][NextSync]_vars

\* the application starts with MaxTasks stored tasks of the viewed day, each
\* with one open checklist item
InitModal ==
  /\ InitLoading
  /\ store = StoreOf([i \in 1..MaxTasks |-> StoredTask(i, <<FALSE>>, FALSE)])

\* the tasks are loaded; then tasks are opened from either view, edited in
\* the detail modal, dragged to another day, their checklist items toggled,
\* and deleted
NextModal ==
  \/ LoadData
  \/ TaskClick
  \/ DialTaskOpen
  \/ CloseModal
  \/ EditTask
  \/ Drop
  \/ ChecklistClick
  \/ DeleteClick
  \/ GatewayReturns
  \/ GatewayFails

SpecModal == InitModal /\ [][NextModal]_vars

\* ------------------------------------------------------- claims: the dial

\* the tasks the dial lays out in the current state
dayTasks == DayTasks(tasks)

TaskDuration(task) == ToMinutes(task.endTime) - ToMinutes(task.startTime)

\* two tasks' intervals share some time
TasksOverlap(a, b) ==
  /\ ToMinutes(a.startTime) < ToMinutes(b.endTime)
  /\ ToMinutes(b.startTime) < ToMinutes(a.endTime)
  /\ ToMinutes(a.startTime) < ToMinutes(a.endTime)
  /\ ToMinutes(b.startTime) < ToMinutes(b.endTime)

\* two segments lie on the same ring and share some of it
SegmentsOverlap(a, b) ==
  /\ a.isPm = b.isPm
  /\ a.startMin < b.endMin /\ b.startMin < a.endMin
  /\ a.startMin < a.endMin /\ b.startMin < b.endMin

\* (hour mod 12) * 30 + minute * 0.5 degrees, in half-degrees
ClockAngle(m) == ((m \div 60) % 12) * 60 + (m % 60)

\* C3: every segment endpoint at minute m has, before the wrap adjustment,
\* the angle (floor(m/60) mod 12) * 30 + (m mod 60) * 0.5 degrees.
C3_AngleOfMinute ==
  \A i \in DOMAIN segments :
    /\ segments[i].path.startAngle = ClockAngle(segments[i].startMin)
    /\ segments[i].path.endAngle \in
         { ClockAngle(segments[i].endMin), ClockAngle(segments[i].endMin) + 720 }

\* C4: for every segment of a task with startTime < endTime the end angle
\* is not less than the start angle and the sweep is 0.5 degree per minute
\* of the segment's duration (so at most 360 degrees).
C4_SweepIsDuration ==
  \A i \in DOMAIN segments :
    LET g == segments[i] IN
      TaskDuration(g.task) > 0 =>
        /\ g.path.endAngle >= g.path.startAngle
        /\ g.path.endAngle - g.path.startAngle = g.duration
        /\ g.path.endAngle - g.path.startAngle <= 720

\* C5: a task with startTime < 12:00 < endTime has exactly two segments,
\* an AM one ending at minute 720 and a PM one starting at minute 720, both
\* with the task's id, whose durations sum to the task's duration.
C5_NoonSplit ==
  \A k \in DOMAIN dayTasks :
    LET task == dayTasks[k]
        own == { i \in DOMAIN segments : segments[i].id = task.id }
    IN (ToMinutes(task.startTime) < 720 /\ 720 < ToMinutes(task.endTime)) =>
         /\ Cardinality(own) = 2
         /\ \E a \in own, b \in own :
              /\ ~segments[a].isPm /\ segments[a].endMin = 720
              /\ segments[a].startMin = ToMinutes(task.startTime)
              /\ segments[b].isPm /\ segments[b].startMin = 720
              /\ segments[b].endMin = ToMinutes(task.endTime)
              /\ segments[a].duration + segments[b].duration = TaskDuration(task)

\* a task from 11:00 to 13:00 is laid out with another task beside it
C5_Witness ==
  /\ Len(dayTasks) >= 2
  /\ \E k \in DOMAIN dayTasks :
       /\ dayTasks[k].startTime = <<11, 0>> /\ dayTasks[k].endTime = <<13, 0>>
       /\ \E i \in DOMAIN segments :
            segments[i].id = dayTasks[k].id /\ segments[i].isPm

\* C19: a task with startTime < endTime that does not cross noon has exactly
\* one segment with its id: on the AM ring when endTime <= 12:00, on the PM
\* ring when startTime >= 12:00, of the task's duration.
C19_OneSegmentOffNoon ==
  \A k \in DOMAIN dayTasks :
    LET task == dayTasks[k]
        own == { i \in DOMAIN segments : segments[i].id = task.id }
        crossesNoon ==
          ToMinutes(task.startTime) < 720 /\ 720 < ToMinutes(task.endTime)
    IN (ToMinutes(task.startTime) < ToMinutes(task.endTime) /\ ~crossesNoon) =>
         /\ Cardinality(own) = 1
         /\ \A i \in own :
              /\ ToMinutes(task.endTime) <= 720 => ~segments[i].isPm
              /\ ToMinutes(task.startTime) >= 720 => segments[i].isPm
              /\ segments[i].duration = TaskDuration(task)

\* a task ending at 12:00 lies on the AM ring and a task starting at 12:00
\* on the PM ring
C19_Witness ==
  \E a \in DOMAIN dayTasks, b \in DOMAIN dayTasks :
    /\ ToMinutes(dayTasks[a].startTime) < 720
    /\ dayTasks[a].endTime = <<12, 0>>
    /\ dayTasks[b].startTime = <<12, 0>>
    /\ ToMinutes(dayTasks[b].endTime) > 720
    /\ \E i \in DOMAIN segments :
         segments[i].id = dayTasks[a].id /\ ~segments[i].isPm
    /\ \E i \in DOMAIN segments :
         segments[i].id = dayTasks[b].id /\ segments[i].isPm

\* C27: no segment has a zero or negative duration: a task whose startTime
\* is not earlier than its endTime has no segment.
C27_NoEmptySegment ==
  /\ \A i \in DOMAIN segments : segments[i].duration > 0
  /\ \A k \in DOMAIN dayTasks :
       ToMinutes(dayTasks[k].startTime) >= ToMinutes(dayTasks[k].endTime) =>
         \A i \in DOMAIN segments : segments[i].id # dayTasks[k].id

\* C6: isActive of a segment is true exactly when the instant lies in the
\* half-open interval [startTime, endTime) of its task on the task's date.
C6_ActiveHalfOpen ==
  \A i \in DOMAIN segments :
    LET task == segments[i].task IN
      segments[i].isActive <=>
        /\ ParseDateTime(task.date.text, task.startTime) <= currentTime
        /\ currentTime < ParseDateTime(task.date.text, task.endTime)

\* C7: the segment list is ordered by segment duration, longest first.
C7_SortedByDuration ==
  \A i \in DOMAIN segments, j \in DOMAIN segments :
    i < j => segments[i].duration >= segments[j].duration

\* three segments of different durations were pushed shortest first and
\* are rendered longest first
C7_Witness ==
  /\ Len(segments) = 3
  /\ LET pushed == PushSegments(dayTasks, currentTime) IN
       /\ pushed[1].duration < pushed[2].duration
       /\ pushed[2].duration < pushed[3].duration
       /\ segments = << pushed[3], pushed[2], pushed[1] >>

\* C8 as stated: of two overlapping tasks of different durations, the
\* longer task's segment comes earlier in render order wherever their
\* segments overlap on a ring.
C8_LongerTaskFirst ==
  \A i \in DOMAIN segments, j \in DOMAIN segments :
    LET a == segments[i]
        b == segments[j]
    IN ( /\ a.id # b.id
         /\ TasksOverlap(a.task, b.task)
         /\ TaskDuration(a.task) > TaskDuration(b.task)
         /\ SegmentsOverlap(a, b) ) => i < j

\* C8 amended: of two overlapping tasks, wherever their segments overlap on
\* a ring and the two segments' durations differ, the longer segment comes
\* earlier in render order.
C8_LongerSegmentFirst ==
  \A i \in DOMAIN segments, j \in DOMAIN segments :
    LET a == segments[i]
        b == segments[j]
    IN ( /\ a.id # b.id
         /\ TasksOverlap(a.task, b.task)
         /\ a.duration > b.duration
         /\ SegmentsOverlap(a, b) ) => i < j

\* tasks of 30, 60 and 90 minutes that all start at 10:30, given in that
\* order, are rendered 90, 60, 30
C8_Witness ==
  /\ Len(dayTasks) = 3
  /\ \A k \in 1..3 : dayTasks[k].startTime = <<10, 30>>
  /\ << TaskDuration(dayTasks[1]), TaskDuration(dayTasks[2]),
        TaskDuration(dayTasks[3]) >> = << 30, 60, 90 >>
  /\ Len(segments) = 3
  /\ << segments[1].id, segments[2].id, segments[3].id >>
       = << dayTasks[3].id, dayTasks[2].id, dayTasks[1].id >>

\* ------------------------------------------------- claims: the scoring

\* the progress of a task as the claim states it, as a relation on a
\* fraction p = <<n, d>>
IsProgressOf(p, task) ==
  /\ task.completed => p[1] = p[2]
  /\ (~task.completed /\ Len(task.checklist) = 0) => p[1] = 0
  /\ (~task.completed /\ Len(task.checklist) > 0) =>
       p[1] * Len(task.checklist) = CompletedCount(task.checklist) * p[2]

\* C1: the progress of a task, in the month cell's style and in the
\* progress panel, is 1 when completed, else done/total of a non-empty
\* checklist, else 0.
C1_ProgressOfTask ==
  \A i \in DOMAIN tasks :
    /\ IsProgressOf(GetTaskStyleProgress(tasks[i]), tasks[i])
    /\ IsProgressOf(PanelTaskScore(tasks[i]), tasks[i])

\* a completed task with one of two items done beside a task that is not
\* completed and has one of two items done
C1_Witness ==
  /\ Len(tasks) = 2
  /\ tasks[1].completed /\ ~tasks[2].completed
  /\ \A i \in 1..2 :
       Len(tasks[i].checklist) = 2 /\ CompletedCount(tasks[i].checklist) = 1
  /\ GetTaskStyleProgress(tasks[1]) = <<1, 1>>
  /\ GetTaskStyleProgress(tasks[2]) = <<1, 2>>

\* C2: the month cell's alpha and the dial's stroke opacity are both 0.15
\* at progress 0, 1.0 at progress 1, and non-decreasing in progress.
C2_OpacityOfProgress ==
  \A i \in DOMAIN tasks :
    LET p == GetTaskStyleProgress(tasks[i]) IN
      /\ p[1] = 0 => /\ RatEq(GetTaskStyleAlpha(tasks[i]), <<15, 100>>)
                     /\ RatEq(GetOpacity(tasks[i]), <<15, 100>>)
      /\ p[1] = p[2] => /\ RatEq(GetTaskStyleAlpha(tasks[i]), <<1, 1>>)
                        /\ RatEq(GetOpacity(tasks[i]), <<1, 1>>)
      /\ \A j \in DOMAIN tasks :
           RatLeq(p, GetTaskStyleProgress(tasks[j])) =>
             /\ RatLeq(GetTaskStyleAlpha(tasks[i]), GetTaskStyleAlpha(tasks[j]))
             /\ RatLeq(GetOpacity(tasks[i]), GetOpacity(tasks[j]))

\* --------------------------------------------- claims: the task handlers

\* a task's date does not parse
DateFails(task) == IsNaNDate(NewDate(task.date))

\* C9: a batch with a task whose date does not parse is aborted with no
\* createTask call issued for any of its tasks and with the local
\* collection as before the call (so holding none of the batch's tasks).
C9_BadBatchAborted ==
  \A k \in DOMAIN adds :
    (\E i \in DOMAIN adds[k].newTasks : DateFails(adds[k].newTasks[i])) =>
      /\ adds[k].sent = 0
      /\ \A i \in DOMAIN adds[k].newTasks, j \in DOMAIN tasks :
           tasks[j].id # adds[k].newTasks[i].id

\* C10: a handleUpdateTask that stops at a date that does not parse leaves
\* the local collection and the selected task as they were and issues no
\* updateTask call.
C10_BadUpdateChangesNothing ==
  [][ (lastError' = "handleUpdateTask" /\ lastError # "handleUpdateTask") =>
        UNCHANGED <<tasks, selectedTask, pending>> ]_vars

\* the edit of a task shown in the modal stopped at its date: the task is
\* in the collection, and no call is in flight
C10_Witness ==
  /\ lastError = "handleUpdateTask"
  /\ selectedTask # Null
  /\ \E j \in DOMAIN tasks : tasks[j] = selectedTask
  /\ pending = <<>>

\* C11: dropping a task on the day cell of its current date leaves the local
\* collection and the selected task as they were and issues no updateTask
\* call.
C11_DropOnOwnDateIsNoOp ==
  [][ \A j \in DOMAIN tasks, day \in ValidDateStrings :
        ( /\ IsSameDay(tasks[j].date, DateObject(day))
          /\ HandleMoveTask(tasks[j], DateObject(day)) )
        => UNCHANGED <<tasks, selectedTask, pending>> ]_vars

\* C12: dropping a task on the day cell of another date replaces that
\* task's date with the cell's date and leaves every other field of it,
\* every other task and the order of the collection as they were.
C12_DropReplacesOnlyDate ==
  [][ \A j \in DOMAIN tasks, day \in ValidDateStrings :
        ( /\ ShownInGrid(tasks[j])
          /\ ~IsSameDay(tasks[j].date, DateObject(day))
          /\ HandleMoveTask(tasks[j], DateObject(day)) )
        => /\ DOMAIN tasks' = DOMAIN tasks
           /\ \A i \in DOMAIN tasks : i # j => tasks'[i] = tasks[i]
           /\ tasks'[j].date = DateObject(day)
           /\ [tasks'[j] EXCEPT !.date = tasks[j].date] = tasks[j] ]_vars

\* the second of two tasks was moved from 2024-12-05 to 2024-12-10: the
\* call for it is in flight and the first task is where it was
C12_Witness ==
  /\ Len(tasks) = 2
  /\ selectedTask = Null /\ lastError = "none"
  /\ tasks[1].date = DateObject("2024-12-05")
  /\ tasks[2] = [GeneratedTask(2, "2024-12-05") EXCEPT !.date = DateObject("2024-12-10")]
  /\ pending = << [op |-> "updateTask", task |-> tasks[2]] >>

\* the createTask calls issued so far
RECURSIVE CreateCallsIn(_)
CreateCallsIn(calls) ==
  IF calls = <<>> THEN 0 ELSE Head(calls).sent + CreateCallsIn(Tail(calls))

\* C20: a step that starts a create, update or delete ends with the local
\* change made along with the call (the batch appended, the entry of the
\* updated id replaced by the task sent, no entry of the deleted id left);
\* a step in which a call fails or returns leaves the collection as it is
\* and issues no call.
C20_OptimisticNoRollback ==
  [][ /\ Len(adds') > Len(adds) =>
           tasks' = tasks \o adds'[Len(adds')].newTasks
      /\ Len(pending') > Len(pending) =>
           LET call == pending'[Len(pending')] IN
             IF call.op = "updateTask"
             THEN /\ Len(tasks') = Len(tasks)
                  /\ \A j \in DOMAIN tasks :
                       tasks'[j] = IF tasks[j].id = call.task.id
                                   THEN call.task ELSE tasks[j]
             ELSE tasks' = SelectSeq(tasks, LAMBDA e : e.id # call.id)
      /\ (\E k \in DOMAIN adds :
            adds[k].status = "awaiting" /\ adds'[k].status = "failed") =>
           /\ tasks' = tasks
           /\ pending' = pending
           /\ CreateCallsIn(adds') = CreateCallsIn(adds)
      /\ Len(pending') < Len(pending) =>
           /\ tasks' = tasks
           /\ adds' = adds
           /\ \A j \in DOMAIN pending' : \E i \in DOMAIN pending :
                pending'[j] = pending[i] ]_vars

\* the first createTask of a batch of two has failed: both tasks of the
\* batch are still in the collection and the second was never sent
C20_Witness ==
  \E k \in DOMAIN adds :
    /\ adds[k].status = "failed"
    /\ Len(adds[k].newTasks) = 2
    /\ adds[k].sent = 1
    /\ \A i \in DOMAIN adds[k].newTasks :
         \E j \in DOMAIN tasks : tasks[j].id = adds[k].newTasks[i].id

\* ---------------------------------------------- claims: the month grid

\* the tasks of the viewed date's cell, as the cell sorts them
cellTasks == GetTasksForDay(tasks, DateObject(ViewedDate))

\* the tasks the cell displays
displayTasks == DisplayTasks(cellTasks, now)

\* C13: in a cell of n > 3 tasks sorted by start time, with no task active
\* the tasks at indices 0, 1, 2 are displayed; with a the index of the
\* (first) active task the three tasks from index min(max(0, a-1), n-3) are
\* displayed, a window that holds index a and ends within the list.
C13_WindowOnActive ==
  LET n == Len(cellTasks)
      a == ActiveIndex(cellTasks, now)
  IN n > 3 =>
       /\ \A i \in 1..(n-1) : ~StartsBefore(cellTasks[i+1], cellTasks[i])
       /\ a = -1 => displayTasks = << cellTasks[1], cellTasks[2], cellTasks[3] >>
       /\ a # -1 =>
            LET start == Min(Max(0, a - 1), n - 3)
            IN /\ displayTasks = << cellTasks[start + 1], cellTasks[start + 2],
                                    cellTasks[start + 3] >>
               /\ start <= a /\ a <= start + 2
               /\ start + 3 <= n

\* five tasks, the last of them (index 4) the only active one: the window
\* is clamped to indices 2, 3, 4
C13_Witness ==
  /\ Len(cellTasks) = 5
  /\ ActiveIndex(cellTasks, now) = 4
  /\ Cardinality({i \in 1..5 : IsTimeNow(cellTasks[i], now)}) = 1
  /\ displayTasks = << cellTasks[3], cellTasks[4], cellTasks[5] >>

\* C14: a cell of n tasks displays min(3, n) of them, and shows "+N more"
\* exactly when n > 3, with N = n - 3 = n - (tasks displayed), whether or
\* not a task is active.
C14_VisibilityCap ==
  LET n == Len(cellTasks)
  IN /\ Len(displayTasks) = Min(3, n)
     /\ HasMore(cellTasks) <=> n > 3
     /\ HasMore(cellTasks) =>
          /\ MoreCount(cellTasks, now) = n - 3
          /\ MoreCount(cellTasks, now) = n - Len(displayTasks)

\* five tasks with none active: the first three are displayed, "+2 more"
C14_Witness ==
  /\ Len(cellTasks) = 5
  /\ ActiveIndex(cellTasks, now) = -1
  /\ displayTasks = SubSeq(cellTasks, 1, 3)
  /\ HasMore(cellTasks) /\ MoreCount(cellTasks, now) = 2

\* the day of the week of a calendar day, counted from the Sunday
\* 2024-02-25 (0 is Sunday, 6 is Saturday)
WeekdayOf(date) ==
  (Ordinal(date) - Ordinal([y |-> 2024, m |-> 2, d |-> 25]) + 7000) % 7

\* C15: the grid is a run of consecutive days from the Sunday on or before
\* the 1st of the month to the Saturday on or after its last day; the number
\* of cells is a multiple of 7 and every day of the month is in it exactly
\* once; the grid of March 2024 starts at February 25.
C15_WholeWeeksOfMonth ==
  LET n == Len(days)
      first == [currentDate EXCEPT !.d = 1]
      last == [currentDate EXCEPT !.d = DaysInMonth(currentDate.y, currentDate.m)]
  IN /\ n > 0 /\ n % 7 = 0
     /\ \A i \in 1..(n-1) : Ordinal(days[i+1]) = Ordinal(days[i]) + 1
     /\ WeekdayOf(days[1]) = 0
     /\ Ordinal(first) - 6 <= Ordinal(days[1]) /\ Ordinal(days[1]) <= Ordinal(first)
     /\ WeekdayOf(days[n]) = 6
     /\ Ordinal(last) <= Ordinal(days[n]) /\ Ordinal(days[n]) <= Ordinal(last) + 6
     /\ \A d \in 1..DaysInMonth(currentDate.y, currentDate.m) :
          Cardinality({i \in 1..n : days[i] = [currentDate EXCEPT !.d = d]}) = 1
     /\ (currentDate.y = 2024 /\ currentDate.m = 3) =>
          days[1] = [y |-> 2024, m |-> 2, d |-> 25]

\* the grid of March 2024, reached from a day of February: six weeks from
\* February 25 to April 6
C15_Witness ==
  /\ currentDate = [y |-> 2024, m |-> 3, d |-> 15]
  /\ Len(days) = 42
  /\ days[1] = [y |-> 2024, m |-> 2, d |-> 25]
  /\ days[6] = [y |-> 2024, m |-> 3, d |-> 1]
  /\ days[42] = [y |-> 2024, m |-> 4, d |-> 6]

\* C25: the task list of every cell holds exactly the tasks of the local
\* collection whose date is the cell's date, by ascending startTime.
C25_CellHoldsTasksOfItsDate ==
  \A day \in ValidDateStrings :
    LET cell == GetTasksForDay(tasks, DateObject(day))
    IN /\ {cell[i].id : i \in DOMAIN cell}
            = {tasks[j].id : j \in {j \in DOMAIN tasks : NewDate(tasks[j].date).text = day}}
       /\ Len(cell) = Cardinality({cell[i].id : i \in DOMAIN cell})
       /\ \A i \in DOMAIN cell, j \in DOMAIN cell :
            i < j => ~StartsBefore(cell[j], cell[i])

\* ------------------------------------------ claims: the dial's selection

\* the instant lies in the task's interval on the task's date, both ends
\* taken as part of the interval
TaskContains(task, t) ==
  /\ ParseDateTime(task.date.text, task.startTime) <= t
  /\ t <= ParseDateTime(task.date.text, task.endTime)

C17_ExplicitSelectionKept ==
  (view = "day" /\ explicitSelection # NoTaskId) =>
    selectedTaskId = explicitSelection

\* the user's selection is kept while it does not contain the current time
\* and another task of the day does
C17_Witness ==
  /\ view = "day"
  /\ explicitSelection # NoTaskId
  /\ selectedTaskId = explicitSelection
  /\ IsToday(now)
  /\ \E i \in DOMAIN DayTasks(tasks), j \in DOMAIN DayTasks(tasks) :
       /\ DayTasks(tasks)[i].id = selectedTaskId
       /\ ~TaskContains(DayTasks(tasks)[i], now)
       /\ TaskContains(DayTasks(tasks)[j], now)
       /\ j > i

\* ------------------------------------------- claims: the progress panel

\* the sum of the progress of the tasks (the progress of claim C1, as the
\* month cell computes it)
RECURSIVE ProgressSum(_)
ProgressSum(pTasks) ==
  IF pTasks = <<>> THEN <<0, 1>>
  ELSE LET p == GetTaskStyleProgress(Head(pTasks))
           rest == ProgressSum(Tail(pTasks))
       IN <<p[1] * rest[2] + rest[1] * p[2], p[2] * rest[2]>>

C21_FailedLoadLeavesEmptyState ==
  (getProjects = "rejected" \/ getTasks = "rejected") =>
    /\ ~loading
    /\ lastError = "loadData"
    /\ tasks = <<>>
    /\ projects = <<>>

\* api.getTasks() was rejected after api.getProjects() had resolved
C21_Witness ==
  /\ getProjects = "resolved"
  /\ getTasks = "rejected"
  /\ ~loading
  /\ projects = <<>>

\* ------------------------------------------------ claims: the AI planner

\* C24: after a schedule generation has failed an alert has been raised,
\* the loading flag is cleared and the list of generated tasks is empty.
C24_FailedGenerationKeepsNothing ==
  generation = "failed" =>
    /\ alerts > 0
    /\ ~isLoading
    /\ generatedEvents = <<>>

\* a generation fails after an earlier one had returned tasks that were
\* added to the calendar
C24_Witness ==
  /\ generation = "failed"
  /\ alerts = 1
  /\ Len(tasks) > 0

\* ------------------------------------------ claims: the persistence server

\* the database in which the task of an id is exactly the one of a body:
\* its scalar fields and its rows, and nothing else of that task
Replaced(db, taskId, body) ==
  [task |-> {r \in db.task : r.id # taskId} \cup {TaskRow(taskId, body)},
   checklistItem |-> {r \in db.checklistItem : r.taskId # taskId}
                       \cup ChecklistRows(taskId, body.checklist),
   contentIdea |-> {r \in db.contentIdea : r.taskId # taskId}
                     \cup IdeaRows(taskId, body.contentIdeas)]

\* C22: a PUT that is answered with success leaves the stored task with the
\* scalar fields, checklist rows and content-idea rows of its body and no
\* other row of that task; a PUT that is answered with an error leaves the
\* database as it was.
C22_PutReplacesAtomically ==
  [][ \A id \in RequestIds : \A body \in RequestBodies(id) :
        \A failAt \in Failures :
          ServerPut(id, body, failAt) =>
            IF lastResponse'.status = 200
            THEN /\ HasTask(store, id)
                 /\ store' = Replaced(store, id, body)
            ELSE store' = store ]_vars

\* a task stored with a checklist row and a content-idea row has been
\* replaced by one without rows
C22_Witness ==
  /\ lastResponse = [method |-> "PUT", status |-> 200]
  /\ Cardinality(store.task) = 2
  /\ \E r \in store.task : r.id = TaskIds[1] /\ r.completed
  /\ \A r \in store.checklistItem : r.taskId # TaskIds[1]
  /\ \A r \in store.contentIdea : r.taskId # TaskIds[1]
  /\ \E r \in store.checklistItem : r.taskId = TaskIds[2]

\* ------------------------------------------- claims: client and server

\* call j in flight is answered by the server
Answered(j) ==
  /\ j \in DOMAIN pending
  /\ pending' = SubSeq(pending, 1, j - 1) \o SubSeq(pending, j + 1, Len(pending))
  /\ lastResponse' = ServerHandles(store, pending[j]).response
  /\ store' = ServerHandles(store, pending[j]).db

\* the local collection's entry of an id, Null without one
LocalTask(all, id) ==
  IF \E i \in DOMAIN all : all[i].id = id
  THEN all[CHOOSE i \in DOMAIN all : all[i].id = id]
  ELSE Null

\* C23: updates of one task that are in flight together end last-write-wins
\* in issue order: when the last of them has been answered with success (no
\* call was ever rejected), the backend holds the task as the local
\* collection holds it, which is the update issued last.
C23_LastIssuedWins ==
  [][ \A j \in 1..MaxPending :
        ( /\ Answered(j)
          /\ pending[j].op = "updateTask"
          /\ lastResponse'.status = 200
          /\ ~callFailed
          /\ \A k \in DOMAIN pending' :
               pending'[k].op = "updateTask" => pending'[k].task.id # pending[j].task.id
          /\ LocalTask(tasks, pending[j].task.id) # Null )
        => StoredWithRows(store', pending[j].task.id)
             = ToJSON(LocalTask(tasks, pending[j].task.id)) ]_vars

\* C26: a toggle of a checklist item in the day view flips the completed
\* flag of that item and leaves every other item and every other field of
\* the task, its completed flag among them, as they were.
C26_ToggleFlipsOneItem ==
  [][ \A j \in DOMAIN tasks : \A k \in DOMAIN tasks[j].checklist :
        ( /\ ParseDay(tasks[j].date) = DayNumber(ViewedDate)
          /\ ToggleChecklistItem(tasks[j], tasks[j].checklist[k].id) )
        => tasks'[j] = [tasks[j] EXCEPT !.checklist[k].completed = ~@] ]_vars

\* the ids of the tasks the backend stores, and of the local collection
StoredIds == {r.id : r \in store.task}

LocalIds == {tasks[j].id : j \in DOMAIN tasks}

\* C28: when no call is in flight, every batch has run to its end and no
\* call was ever rejected, the backend stores the tasks of exactly the ids
\* of the local collection.
C28_BackendIdsMatchLocal ==
  ( /\ pending = <<>>
    /\ \A k \in DOMAIN adds : adds[k].status = "done"
    /\ ~callFailed )
  => StoredIds = LocalIds

\* the createTask call of batch k that is in flight is answered and resolves
Completed(k) ==
  /\ adds[k].status = "awaiting"
  /\ store' = PostTask(store, ToJSON(adds[k].newTasks[adds[k].i])).db
  /\ lastResponse'.method = "POST"
  /\ callFailed' = callFailed

\* the createTask call of batch k that is in flight is rejected: the loop
\* moves without an answer of the server
Rejected(k) ==
  /\ adds[k].status = "awaiting"
  /\ adds'[k] # adds[k]
  /\ store' = store
  /\ lastResponse' = lastResponse

\* C29: the createTask calls of a batch are issued one at a time in list
\* order: the calls issued are those of the first positions of the list, a
\* call is in flight only for the position the loop stands at, and the
\* next call is issued only in the step in which the call in flight
\* resolves, for the next position.  When a call is rejected the loop is
\* over: no call is issued for the batch from then on, and the step of the
\* rejection leaves every task in the local collection.
C29_CreatesOneAtATimeInOrder ==
  [][ \A k \in DOMAIN adds :
        /\ adds[k].sent <= adds[k].i
        /\ adds[k].i <= Len(adds[k].newTasks)
        /\ adds[k].status = "awaiting" => adds[k].sent = adds[k].i
        /\ adds'[k].sent \in {adds[k].sent, adds[k].sent + 1}
        /\ adds'[k].sent = adds[k].sent + 1 =>
             /\ Completed(k)
             /\ adds'[k].i = adds[k].i + 1
             /\ adds'[k].status = "awaiting"
        /\ Rejected(k) =>
             /\ adds'[k] = [adds[k] EXCEPT !.status = "failed"]
             /\ tasks' = tasks
        /\ adds[k].status = "failed" => adds'[k] = adds[k] ]_vars

\* the first createTask call of a batch of two was rejected: the second
\* task was never sent, the backend stores neither, both are in the local
\* collection
C29_Witness ==
  /\ callFailed
  /\ store = EmptyStore
  /\ \E k \in DOMAIN adds :
       /\ adds[k].status = "failed"
       /\ adds[k].sent = 1
       /\ Len(adds[k].newTasks) = 2
       /\ Len(tasks) = 2
       /\ \A i \in 1..2 : tasks[i].id = adds[k].newTasks[i].id

\* C30: a selected task (the one the detail modal shows) is an entry of the
\* local collection: exactly one entry has its id, and that entry equals it
\* field for field.
C30_SelectedTaskIsLocalEntry ==
  selectedTask # Null =>
    /\ Cardinality({j \in DOMAIN tasks : tasks[j].id = selectedTask.id}) = 1
    /\ LocalTask(tasks, selectedTask.id) = selectedTask

\* the other task has been deleted, and the selected task has had its
\* checklist item toggled and has been dragged to another day while selected
C30_Witness ==
  /\ selectedTask # Null
  /\ Len(tasks) = 1
  /\ selectedTask.date = DateObject("2024-12-10")
  /\ selectedTask.checklist[1].completed

=============================================================================
